---------------------------- MODULE Spec2Model ----------------------------
(* A model of terribleconsolegui.py: the key table and the key decoding    *)
(* of ElementList.key_presses, GUICounter, GUIHiddenList, the exclusive    *)
(* selection of GUIElement.select, and ElementList with its navigation,    *)
(* its key_presses generator and its use as a context manager.             *)
EXTENDS Integers, Sequences, FiniteSets, TLC

VARIABLES
    d_last,         \* decoder: [reads, ok, key] of the last decoding
    made,           \* an element as a constructor call has left it, with the call's arguments
    printed,        \* the first print_pos call update() makes for it
    counter,        \* a GUICounter object
    c_init,         \* the count the GUICounter was constructed with
    a_init,         \* the aux_count the GUICounter was constructed with
    c_last,         \* [op, pre]: the last call on counter, the object before it
    hlist,          \* a GUIHiddenList object
    h_trace,        \* the calls made on hlist, in order
    h_last,         \* [op, pre]: the last call on hlist, the object before it
    elems,          \* the elements of the ElementList, in list order
    current_index,  \* ElementList._current_index
    wrap,           \* ElementList.wrap
    l_last,         \* [op, arg, pre, moved]: the last direct call on the list
    pc,             \* where the key_presses generator is
    opts,           \* the arguments key_presses was called with
    decoded,        \* the keys decoded by key_presses, in order
    reads,          \* the bytes getch returned during the last next()
    readlog,        \* the bytes getch returned, one byte string per next()
    events,         \* the startup's calls and the getch calls of the last next()
    g_pre,          \* the list as the last next() had it when it called getch
    yielded,        \* the keys yielded to the consumer, in order
    scope,          \* the with block around the list: none, inside, left
    clears,         \* per element, the number of clear() calls
    cleanups        \* the number of ElementList.cleanup() calls

decodeVars  == <<d_last>>
madeVars    == <<made, printed>>
counterVars == <<counter, c_init, a_init, c_last>>
hiddenVars  == <<hlist, h_trace, h_last>>
listVars    == <<elems, current_index, wrap, l_last>>
genVars     == <<pc, opts, decoded, reads, readlog, events, g_pre, yielded,
                 scope, clears, cleanups>>
vars == <<decodeVars, madeVars, counterVars, hiddenVars, listVars, genVars>>

---------------------------------------------------------------------------
(* The key table.                                                          *)

\* the largest value getch can return
MaxByte == 255
Byte == 0..MaxByte

\* chr(i) for i in range(32, 127); Printable[i - 31] is chr(i). A TLA+ string
\* cannot hold the grave accent: "grave" stands for chr(96), and like chr(96)
\* it differs from every other key.
Printable ==
    << " ", "!", "\"", "#", "$", "%", "&", "'", "(", ")", "*", "+",
       ",", "-", ".", "/", "0", "1", "2", "3", "4", "5", "6", "7",
       "8", "9", ":", ";", "<", "=", ">", "?", "@", "A", "B", "C",
       "D", "E", "F", "G", "H", "I", "J", "K", "L", "M", "N", "O",
       "P", "Q", "R", "S", "T", "U", "V", "W", "X", "Y", "Z", "[",
       "\\", "]", "^", "_", "grave", "a", "b", "c", "d", "e", "f", "g",
       "h", "i", "j", "k", "l", "m", "n", "o", "p", "q", "r", "s",
       "t", "u", "v", "w", "x", "y", "z", "{", "|", "}", "~" >>

chr(i) == Printable[i - 31]

\* the dict literal of lines 8-53, as <<byte string, key>> pairs
keysLiteral ==
    { << <<32>>, " " >>,          << <<28>>, "^\\" >>,
      << <<27>>, "esc" >>,        << <<29>>, "^]" >>,
      << <<13>>, "enter" >>,      << <<10>>, "^enter" >>,
      << <<9>>, "tab" >>,         << <<149>>, "^tab" >>,
      << <<8>>, "back" >>,        << <<127>>, "^back" >>,
      << <<224, 83>>, "del" >>,   << <<224, 147>>, "^del" >>,
      << <<224, 71>>, "home" >>,  << <<224, 119>>, "^home" >>,
      << <<224, 79>>, "end" >>,   << <<224, 117>>, "^end" >>,
      << <<224, 73>>, "pgup" >>,  << <<224, 134>>, "^pgup" >>,
      << <<224, 81>>, "pgdn" >>,
      << <<0, 82>>, "num0" >>,    << <<0, 79>>, "num1" >>,
      << <<0, 80>>, "num2" >>,    << <<0, 81>>, "num3" >>,
      << <<0, 75>>, "num4" >>,    << <<0, 77>>, "num6" >>,
      << <<0, 71>>, "num7" >>,    << <<0, 72>>, "num8" >>,
      << <<0, 73>>, "num9" >>,    << <<0, 83>>, "num." >>,
      << <<0, 146>>, "^num0" >>,  << <<0, 117>>, "^num1" >>,
      << <<0, 145>>, "^num2" >>,  << <<0, 118>>, "^num3" >>,
      << <<0, 115>>, "^num4" >>,  << <<0, 116>>, "^num6" >>,
      << <<0, 119>>, "^num7" >>,  << <<0, 141>>, "^num8" >>,
      << <<0, 132>>, "^num9" >>,  << <<0, 147>>, "^num." >>,
      << <<0, 149>>, "^num/" >>,
      << <<224, 72>>, "up" >>,    << <<224, 80>>, "down" >>,
      << <<224, 75>>, "left" >>,  << <<224, 77>>, "right" >> }

\* keys.update({bytes((i,)): chr(i) for i in range(32, 127)})
keysUpdate == { << <<i>>, chr(i) >> : i \in 32..126 }

\* the table after the update: an updated entry replaces the literal's
keys ==
    keysUpdate \cup { p \in keysLiteral : \A q \in keysUpdate : q[1] # p[1] }

HasKey(bs) == \E p \in keys : p[1] = bs
Lookup(bs) == (CHOOSE p \in keys : p[1] = bs)[2]

\* the byte values after which key_presses calls getch a second time
Prefixes == {0, 224}

\* what the second getch of a decoding can return; no second getch is made
\* after a byte that is no prefix
SecondBytes(k1, from) == IF k1 \in Prefixes THEN from ELSE {0}

\* key_presses, lines 339-345: k1 is the first getch, k2 the second one,
\* made only after a prefix. A byte string without an entry raises KeyError.
GetKeyMissingSecondRead(k1, k2) ==
    LET bs == <<k1>>
    IN  [reads |-> bs, ok |-> HasKey(bs),
         key |-> IF HasKey(bs) THEN Lookup(bs) ELSE "KeyError"]

GetKeyReadsTwo(k1, k2) ==
    LET bs == <<k1, k2>>
    IN  [reads |-> bs, ok |-> HasKey(bs),
         key |-> IF HasKey(bs) THEN Lookup(bs) ELSE "KeyError"]

GetKeyWithoutError(k1, k2) ==
    LET bs == IF k1 \in Prefixes THEN <<k1, k2>> ELSE <<k1>>
    IN  [reads |-> bs, ok |-> TRUE,
         key |-> IF HasKey(bs) THEN Lookup(bs) ELSE "?"]

GetKey(k1, k2) ==
    LET bs == IF k1 = 0 THEN <<k1, k2>>
              ELSE IF k1 = 224 THEN <<k1, k2>>
              ELSE <<k1>>
    IN  [reads |-> bs, ok |-> HasKey(bs),
         key |-> IF HasKey(bs) THEN Lookup(bs) ELSE "KeyError"]

IdleDecode == d_last = [reads |-> <<>>, ok |-> TRUE, key |-> ""]

\* one decoding of freshly read bytes
Decode ==
    /\ \E k1 \in Byte : \E k2 \in SecondBytes(k1, Byte) :
           d_last' = GetKey(k1, k2)
    /\ UNCHANGED <<madeVars, counterVars, hiddenVars, listVars, genVars>>

---------------------------------------------------------------------------
(* GUICounter.                                                             *)

\* math.inf, larger than any count the model reaches
PosInf == 1000000
NegInf == 0 - PosInf

\* finite bounds are drawn from -MaxBound..MaxBound
MaxBound == 2
\* counts are followed while they are within -CountCap..CountCap
CountCap == MaxBound + 3

\* a value that is an int in one call and a str in another carries its type
IntVal(n) == [t |-> "int", v |-> n]
StrVal(s) == [t |-> "str", v |-> s]

\* GUIElement.__init__, without the colours
GUIElement__init__(text, x, y, selected) ==
    [text |-> text, x |-> x, y |-> y, selected |-> selected, exclusive_to |-> {}]

\* GUICounter.__init__: selected is not passed on to GUIElement.__init__,
\* which sets its default False; text is default
GUICounter__init__(x, y, selected, default, default_aux, align, padding, bounds, aux_bounds, wrap_bounds) ==
    [text |-> default, x |-> x, y |-> y,
     selected |-> GUIElement__init__(default, x, y, FALSE).selected,
     exclusive_to |-> {},
     count |-> default, aux_count |-> default_aux,
     align |-> align, padding |-> padding,
     bounds |-> bounds, aux_bounds |-> aux_bounds, wrap_bounds |-> wrap_bounds]

\* GUICounter(1, 1, default=default, bounds=bounds, wrap_bounds=wrap_bounds)
GUICounter(default, bounds, wrap_bounds) ==
    GUICounter__init__(IntVal(1), IntVal(1), FALSE, default, 0, "left", 0,
                       bounds, <<NegInf, PosInf>>, wrap_bounds)

GUICounter_increase_unchecked(c) == [c EXCEPT !.count = @ + 1]

GUICounter_increase(c) ==
    IF ~(c.count = c.bounds[2]) THEN [c EXCEPT !.count = @ + 1]
    ELSE IF c.wrap_bounds THEN [c EXCEPT !.count = c.bounds[1]]
    ELSE c

GUICounter_decrease_same_bound(c) ==
    IF ~(c.count = c.bounds[1]) THEN [c EXCEPT !.count = @ - 1]
    ELSE IF c.wrap_bounds THEN [c EXCEPT !.count = c.bounds[1]]
    ELSE c

GUICounter_decrease(c) ==
    IF ~(c.count = c.bounds[1]) THEN [c EXCEPT !.count = @ - 1]
    ELSE IF c.wrap_bounds THEN [c EXCEPT !.count = c.bounds[2]]
    ELSE c

\* aux_increase as the increase policy applied to aux_count and aux_bounds
GUICounter_aux_increase_on_aux(c) ==
    IF ~(c.aux_count = c.aux_bounds[2]) THEN [c EXCEPT !.aux_count = @ + 1]
    ELSE IF c.wrap_bounds THEN [c EXCEPT !.aux_count = c.aux_bounds[1]]
    ELSE c

\* lines 229-234: the test reads count, the wrap assigns count
GUICounter_aux_increase(c) ==
    IF ~(c.count = c.aux_bounds[2]) THEN [c EXCEPT !.aux_count = @ + 1]
    ELSE IF c.wrap_bounds THEN [c EXCEPT !.count = c.aux_bounds[1]]
    ELSE c

\* lines 236-241
GUICounter_aux_decrease(c) ==
    IF ~(c.count = c.aux_bounds[1]) THEN [c EXCEPT !.aux_count = @ - 1]
    ELSE IF c.wrap_bounds THEN [c EXCEPT !.count = c.aux_bounds[2]]
    ELSE c

FiniteBounds ==
    { <<lo, hi>> : lo \in (0 - MaxBound)..MaxBound, hi \in (0 - MaxBound)..MaxBound }
BoundsArgs ==
    { b \in FiniteBounds : b[1] <= b[2] } \cup { <<NegInf, PosInf>> }

IsFinite(bounds) == bounds[1] # NegInf /\ bounds[2] # PosInf
Inside(n, bounds) == bounds[1] <= n /\ n <= bounds[2]

InitCounter ==
    /\ \E default \in (0 - MaxBound - 1)..(MaxBound + 1), bounds \in BoundsArgs,
          wrap_bounds \in BOOLEAN :
           /\ counter = GUICounter(default, bounds, wrap_bounds)
           /\ c_init = default
           /\ a_init = 0
    /\ c_last = [op |-> "init", pre |-> counter]

\* bounds and aux_bounds of the counters whose aux calls are followed are
\* drawn from -MaxAux..MaxAux
MaxAux == 1
AuxCap == MaxAux + 2

AuxBoundsArgs ==
    { <<lo, hi>> \in ((0 - MaxAux)..MaxAux) \X ((0 - MaxAux)..MaxAux) : lo <= hi }
       \cup { <<NegInf, PosInf>> }

\* GUICounter(1, 1, default=.., default_aux=.., bounds=.., aux_bounds=..,
\* wrap_bounds=..)
InitAux ==
    /\ \E default \in (0 - MaxAux - 1)..(MaxAux + 1),
          default_aux \in (0 - MaxAux)..MaxAux,
          bounds \in AuxBoundsArgs, aux_bounds \in AuxBoundsArgs,
          wrap_bounds \in BOOLEAN :
           /\ counter = GUICounter__init__(IntVal(1), IntVal(1), FALSE, default, default_aux,
                                           "left", 0, bounds, aux_bounds, wrap_bounds)
           /\ c_init = default
           /\ a_init = default_aux
    /\ c_last = [op |-> "init", pre |-> counter]

IdleCounter ==
    /\ counter = GUICounter(0, <<NegInf, PosInf>>, TRUE)
    /\ c_init = 0
    /\ a_init = 0
    /\ c_last = [op |-> "init", pre |-> counter]

CounterIncrease ==
    /\ counter.count \in (0 - CountCap)..CountCap
    /\ counter' = GUICounter_increase(counter)
    /\ c_last' = [op |-> "increase", pre |-> counter]
    /\ UNCHANGED <<c_init, a_init, decodeVars, madeVars, hiddenVars, listVars, genVars>>

CounterDecrease ==
    /\ counter.count \in (0 - CountCap)..CountCap
    /\ counter' = GUICounter_decrease(counter)
    /\ c_last' = [op |-> "decrease", pre |-> counter]
    /\ UNCHANGED <<c_init, a_init, decodeVars, madeVars, hiddenVars, listVars, genVars>>

\* len(str(n)) of an int n
RECURSIVE DigitLen(_)
DigitLen(n) == IF n < 10 THEN 1 ELSE 1 + DigitLen(n \div 10)
StrLen(n) == IF n < 0 THEN 1 + DigitLen(0 - n) ELSE DigitLen(n)

MaxOf(S) == CHOOSE m \in S : \A k \in S : k <= m

\* lines 204-210: the length of the text update() prints; zfill pads a
\* shorter text to padding columns
GUICounter_update_len(c) ==
    IF c.align = "left" THEN StrLen(c.count)
    ELSE MaxOf({StrLen(c.count), c.padding})

\* lines 164-180 with a length passed: that many blanks are printed
GUIElement_clear(c, length) == length

\* lines 212-213: text is what __init__ stored, update() does not assign it
GUICounter_clear(c, width) ==
    GUIElement_clear(c, MaxOf({width, StrLen(c.text), c.padding}))

\* width and padding are drawn from 0..MaxPad, and counts are followed
\* while within MaxPad of default
MaxPad == 2

ClearDefaults == { 0 - 1, 0, 9, 10 }

\* GUICounter(1, 1, default=.., align=.., padding=..)
InitClear ==
    /\ \E default \in ClearDefaults, align \in {"left", "right"},
          padding \in 0..MaxPad :
           /\ counter = GUICounter__init__(IntVal(1), IntVal(1), FALSE, default, 0,
                                           align, padding, <<NegInf, PosInf>>,
                                           <<NegInf, PosInf>>, TRUE)
           /\ c_init = default
           /\ a_init = 0
    /\ c_last = [op |-> "init", pre |-> counter]

ClearFollowed ==
    counter.count \in (c_init - MaxPad)..(c_init + MaxPad)

CounterIncreaseShown == ClearFollowed /\ CounterIncrease

CounterDecreaseShown == ClearFollowed /\ CounterDecrease

\* clear(width) called after after, with shown columns on the screen
CounterClear ==
    /\ c_last.op \in {"increase", "decrease"}
    /\ \E width \in 0..MaxPad :
          c_last' = [op |-> "clear", pre |-> counter, width |-> width,
                     shown |-> GUICounter_update_len(counter),
                     blanked |-> GUICounter_clear(counter, width)]
    /\ UNCHANGED <<counter, c_init, a_init, decodeVars, madeVars, hiddenVars, listVars, genVars>>

AuxFollowed ==
    /\ counter.count \in (0 - AuxCap)..AuxCap
    /\ counter.aux_count \in (0 - AuxCap)..AuxCap

CounterIncreaseAux == AuxFollowed /\ CounterIncrease

CounterDecreaseAux == AuxFollowed /\ CounterDecrease

CounterAuxIncrease ==
    /\ AuxFollowed
    /\ counter' = GUICounter_aux_increase(counter)
    /\ c_last' = [op |-> "aux_increase", pre |-> counter]
    /\ UNCHANGED <<c_init, a_init, decodeVars, madeVars, hiddenVars, listVars, genVars>>

CounterAuxDecrease ==
    /\ AuxFollowed
    /\ counter' = GUICounter_aux_decrease(counter)
    /\ c_last' = [op |-> "aux_decrease", pre |-> counter]
    /\ UNCHANGED <<c_init, a_init, decodeVars, madeVars, hiddenVars, listVars, genVars>>

---------------------------------------------------------------------------
(* GUIHiddenList.                                                          *)

\* the longest items list, and the most calls followed on one list
MaxItems == 3
MaxCalls == 4

ItemNames == <<"a", "b", "c", "d", "e", "f">>

\* GUIHiddenList.__init__: the GUICounter it builds keeps default = 0
GUIHiddenList(items, w) == [count |-> 0, items |-> items, wrap |-> w]

\* Python's % with a positive right operand, as TLA+'s, is never negative
current(h) == h.items[(h.count % Len(h.items)) + 1]

GUIHiddenList_increase_always(h) == [h EXCEPT !.count = @ + 1]

GUIHiddenList_increase(h) ==
    IF h.count = Len(h.items) - 1
    THEN IF h.wrap THEN [h EXCEPT !.count = @ + 1] ELSE h
    ELSE [h EXCEPT !.count = @ + 1]

GUIHiddenList_decrease_holds(h) ==
    IF h.count = 0 THEN h ELSE [h EXCEPT !.count = @ - 1]

GUIHiddenList_decrease(h) ==
    IF h.count = 0
    THEN IF h.wrap THEN [h EXCEPT !.count = @ - 1] ELSE h
    ELSE [h EXCEPT !.count = @ - 1]

InitHidden ==
    /\ \E n \in 1..MaxItems, w \in BOOLEAN :
           hlist = GUIHiddenList(SubSeq(ItemNames, 1, n), w)
    /\ h_trace = <<>>
    /\ h_last = [op |-> "init", pre |-> hlist]

IdleHidden ==
    /\ hlist = GUIHiddenList(<<"a">>, FALSE)
    /\ h_trace = <<>>
    /\ h_last = [op |-> "init", pre |-> hlist]

HiddenIncrease ==
    /\ Len(h_trace) < MaxCalls
    /\ hlist' = GUIHiddenList_increase(hlist)
    /\ h_trace' = Append(h_trace, "increase")
    /\ h_last' = [op |-> "increase", pre |-> hlist]
    /\ UNCHANGED <<decodeVars, madeVars, counterVars, listVars, genVars>>

HiddenDecrease ==
    /\ Len(h_trace) < MaxCalls
    /\ hlist' = GUIHiddenList_decrease(hlist)
    /\ h_trace' = Append(h_trace, "decrease")
    /\ h_last' = [op |-> "decrease", pre |-> hlist]
    /\ UNCHANGED <<decodeVars, madeVars, counterVars, listVars, genVars>>

---------------------------------------------------------------------------
(* GUIElement.select and deselect, on the elements of one list. An         *)
(* element's exclusive_to holds the list positions of the elements in it.  *)

\* the longest ElementList of direct calls
MaxGroup == 3

deselect(els, j) == [els EXCEPT ![j].selected = FALSE]

select_keeps_others(els, i) == [els EXCEPT ![i].selected = TRUE]

\* the loop deselects every other selected element of exclusive_to
select(els, i) ==
    [j \in DOMAIN els |->
        IF j = i THEN [els[j] EXCEPT !.selected = TRUE]
        ELSE IF j \in els[i].exclusive_to /\ els[j].selected
             THEN [els[j] EXCEPT !.selected = FALSE]
             ELSE els[j]]

---------------------------------------------------------------------------
(* ElementList.                                                            *)

\* ElementList.__init__: with exclusive, every element's exclusive_to is args
ElementList(args, default, w, exclusive) ==
    [elems |-> [i \in DOMAIN args |->
                   IF exclusive THEN [args[i] EXCEPT !.exclusive_to = DOMAIN args]
                   ELSE args[i]],
     current_index |-> default, wrap |-> w]

\* self[self._current_index], as a position of elems: Python counts a
\* negative index from the end
current_pos(l) ==
    IF l.current_index < 0 THEN Len(l.elems) + l.current_index + 1
    ELSE l.current_index + 1

move_left_clamped(l) ==
    LET i == IF l.current_index = 0 /\ ~l.wrap THEN 0
             ELSE (l.current_index - 1) % Len(l.elems)
    IN  [l EXCEPT !.current_index = i, !.elems = select(l.elems, i + 1)]

move_left(l) ==
    LET i == (l.current_index - 1) % Len(l.elems)
    IN  [l EXCEPT !.current_index = i, !.elems = select(l.elems, i + 1)]

move_right(l) ==
    LET i == (l.current_index + 1) % Len(l.elems)
    IN  [l EXCEPT !.current_index = i, !.elems = select(l.elems, i + 1)]

TheList == [elems |-> elems, current_index |-> current_index, wrap |-> wrap]

SetList(l) ==
    /\ elems' = l.elems
    /\ current_index' = l.current_index
    /\ wrap' = l.wrap

DefaultCounter == GUICounter(0, <<NegInf, PosInf>>, TRUE)

\* elements whose selected attribute earlier calls have left in any state
InitList ==
    /\ \E n \in 1..MaxGroup :
         \E sel \in [1..n -> BOOLEAN], default \in (0 - n)..(n - 1),
            w \in BOOLEAN, exclusive \in BOOLEAN :
           LET args == [i \in 1..n |-> [DefaultCounter EXCEPT !.selected = sel[i]]]
               l == ElementList(args, default, w, exclusive)
           IN  /\ elems = l.elems
               /\ current_index = l.current_index
               /\ wrap = l.wrap
    /\ l_last = [op |-> "init", arg |-> 0, pre |-> TheList, moved |-> FALSE]

IdleList ==
    /\ elems = <<DefaultCounter>>
    /\ current_index = 0
    /\ wrap = TRUE
    /\ l_last = [op |-> "init", arg |-> 0, pre |-> TheList, moved |-> FALSE]

ListSelect ==
    /\ \E i \in DOMAIN elems :
           /\ elems' = select(elems, i)
           /\ l_last' = [op |-> "select", arg |-> i, pre |-> TheList,
                         moved |-> l_last.moved]
    /\ UNCHANGED <<current_index, wrap, decodeVars, madeVars, counterVars, hiddenVars, genVars>>

ListDeselect ==
    /\ \E i \in DOMAIN elems :
           /\ elems' = deselect(elems, i)
           /\ l_last' = [op |-> "deselect", arg |-> i, pre |-> TheList,
                         moved |-> l_last.moved]
    /\ UNCHANGED <<current_index, wrap, decodeVars, madeVars, counterVars, hiddenVars, genVars>>

ListMoveLeft ==
    /\ SetList(move_left(TheList))
    /\ l_last' = [op |-> "move_left", arg |-> 0, pre |-> TheList, moved |-> TRUE]
    /\ UNCHANGED <<decodeVars, madeVars, counterVars, hiddenVars, genVars>>

ListMoveRight ==
    /\ SetList(move_right(TheList))
    /\ l_last' = [op |-> "move_right", arg |-> 0, pre |-> TheList, moved |-> TRUE]
    /\ UNCHANGED <<decodeVars, madeVars, counterVars, hiddenVars, genVars>>

---------------------------------------------------------------------------
(* ElementList.key_presses, a generator, and the list as context manager.  *)

\* the longest list key_presses runs on, and the most keys it decodes
MaxElems == 2
MaxKeys == 3

\* what getch returns during one next() here, as byte strings: up, a pair
\* without an entry, num8, enter, esc, d, s, a byte without an entry. After
\* a byte that is no prefix there is no second getch.
LoopInputs ==
    { <<224, 72>>, <<224, 13>>, <<0, 72>>, <<13>>, <<27>>, <<100>>, <<115>>, <<1>> }

startup_without_select(l) == l

\* lines 334-337: init(), the current element selected, every element drawn
startup(l) == [l EXCEPT !.elems = select(l.elems, current_pos(l))]

\* the calls select makes on the elements, in order: deselect and its update
\* on every other selected element of exclusive_to, then the update of the
\* element itself, now selected
select_events(els, i) ==
    LET idx == [j \in 1..Len(els) |-> j]
        others == SelectSeq(idx, LAMBDA j : j # i /\ j \in els[i].exclusive_to
                                              /\ els[j].selected)
    IN  [k \in 1..(2 * Len(others)) |->
            IF k % 2 = 1 THEN <<"deselect", others[(k + 1) \div 2]>>
            ELSE <<"update", others[k \div 2]>>]
        \o << <<"select", i>>, <<"update", i>> >>

startup_events_without_updates(l) ==
    << <<"init", 0>> >> \o select_events(l.elems, current_pos(l))

\* lines 334-337, as calls: init(), current.select(), update() on every element
startup_events(l) ==
    << <<"init", 0>> >> \o select_events(l.elems, current_pos(l))
       \o [j \in 1..Len(l.elems) |-> <<"update", j>>]

\* the getch calls of one decoding
getch_events(bs) == [k \in 1..Len(bs) |-> <<"getch", bs[k]>>]

AutoLeftRight_arrows_only(l, o, k) ==
    IF o.auto_left_right
    THEN IF k = "left" THEN move_left(l)
         ELSE IF k = "right" THEN move_right(l)
         ELSE l
    ELSE l

\* lines 346-350
AutoLeftRight(l, o, k) ==
    IF o.auto_left_right
    THEN IF k \in {"left", "a"} THEN move_left(l)
         ELSE IF k \in {"right", "d"} THEN move_right(l)
         ELSE l
    ELSE l

\* lines 351-355
AutoUpDown(l, o, k) ==
    IF o.auto_up_down
    THEN IF k \in {"up", "w"}
         THEN [l EXCEPT !.elems[current_pos(l)] = GUICounter_increase(@)]
         ELSE IF k \in {"down", "s"}
         THEN [l EXCEPT !.elems[current_pos(l)] = GUICounter_decrease(@)]
         ELSE l
    ELSE l

Outcome_without_break(o, k) ==
    IF o.auto_esc /\ k = "esc" THEN "exit" ELSE "yield"

\* lines 356-360: exit() raises SystemExit, break leaves the loop
Outcome(o, k) ==
    IF o.auto_esc /\ k = "esc" THEN "exit"
    ELSE IF o.auto_enter /\ k = "enter" THEN "break"
    ELSE "yield"

clear_all_without_cleanup(c) ==
    [clears |-> [i \in DOMAIN c.clears |-> c.clears[i] + 1],
     cleanups |-> c.cleanups]

\* ElementList.clear_all: clear() on every element, then cleanup()
clear_all(c) ==
    [clears |-> [i \in DOMAIN c.clears |-> c.clears[i] + 1],
     cleanups |-> c.cleanups + 1]

Cleared == [clears |-> clears, cleanups |-> cleanups]

SetCleared(c) ==
    /\ clears' = c.clears
    /\ cleanups' = c.cleanups

Options ==
    [auto_left_right : BOOLEAN, auto_up_down : BOOLEAN, auto_esc : BOOLEAN,
     auto_enter : BOOLEAN, clean : BOOLEAN]

\* GUICounter.__init__ leaves selected False
Unselected(n) == { [i \in 1..n |-> FALSE] }
\* selected as earlier select and deselect calls have left it
AnySelection(n) == [1..n -> BOOLEAN]

\* key_presses called on a list of n counters, for each n, with the elements
\* selected or not when any_selection, and default index, exclusive, options
\* and scope of the sets given
InitGenOf(any_selection, exclusives, options, scopes) ==
    /\ \E n \in 1..MaxElems :
         \E sel \in (IF any_selection THEN AnySelection(n) ELSE Unselected(n)), default \in 0..(n - 1), exclusive \in exclusives :
           LET args == [i \in 1..n |-> [DefaultCounter EXCEPT !.selected = sel[i]]]
               l == ElementList(args, default, TRUE, exclusive)
           IN  /\ elems = l.elems
               /\ current_index = l.current_index
               /\ wrap = l.wrap
               /\ clears = [i \in 1..n |-> 0]
    /\ l_last = [op |-> "init", arg |-> 0, pre |-> TheList, moved |-> FALSE]
    /\ opts \in options
    /\ scope \in scopes
    /\ pc = "created"
    /\ decoded = <<>>
    /\ reads = <<>>
    /\ readlog = <<>>
    /\ events = <<>>
    /\ g_pre = TheList
    /\ yielded = <<>>
    /\ cleanups = 0

\* a list of freshly constructed counters, built without exclusive,
\* key_presses called on it, inside a with block or not
InitGen == InitGenOf(FALSE, {FALSE}, Options, {"none", "inside"})

IdleGen ==
    /\ opts = [auto_left_right |-> FALSE, auto_up_down |-> FALSE,
               auto_esc |-> FALSE, auto_enter |-> FALSE, clean |-> FALSE]
    /\ scope = "none"
    /\ pc = "created"
    /\ decoded = <<>>
    /\ reads = <<>>
    /\ readlog = <<>>
    /\ events = <<>>
    /\ g_pre = TheList
    /\ yielded = <<>>
    /\ clears = <<0>>
    /\ cleanups = 0

\* next() on the generator: from its start or from the yield it is suspended
\* at, up to the next yield, the return or the exception; getch returns one of
\* the byte strings of inputs
GenStep(inputs) ==
    /\ pc \in {"created", "suspended"}
    /\ scope # "left"
    /\ Len(decoded) < MaxKeys
    /\ \E in \in inputs :
         LET l0 == IF pc = "created" THEN startup(TheList) ELSE TheList
             g  == GetKey(in[1], IF Len(in) > 1 THEN in[2] ELSE 0)
             l2 == AutoUpDown(AutoLeftRight(l0, opts, g.key), opts, g.key)
             out == Outcome(opts, g.key)
         IN  /\ reads' = g.reads
             /\ readlog' = Append(readlog, g.reads)
             /\ events' = (IF pc = "created" THEN startup_events(TheList) ELSE <<>>)
                              \o getch_events(g.reads)
             /\ g_pre' = l0
             /\ IF ~g.ok
                THEN /\ pc' = "KeyError"
                     /\ SetList(l0)
                     /\ UNCHANGED <<decoded, yielded, clears, cleanups>>
                ELSE /\ SetList(l2)
                     /\ decoded' = Append(decoded, g.key)
                     /\ pc' = CASE out = "exit" -> "SystemExit"
                                [] out = "break" -> "returned"
                                [] OTHER -> "suspended"
                     /\ yielded' = IF out = "yield" THEN Append(yielded, g.key)
                                   ELSE yielded
                     /\ IF out = "break" /\ opts.clean
                        THEN SetCleared(clear_all(Cleared))
                        ELSE UNCHANGED <<clears, cleanups>>
    /\ UNCHANGED <<opts, scope, decodeVars, madeVars, counterVars, hiddenVars>>

GenNext == GenStep(LoopInputs) /\ UNCHANGED l_last

\* getch returning the keys the auto options act on: left, right, up, down,
\* a, d, w, s, and x, which none acts on
AutoInputs ==
    { <<224, 75>>, <<224, 77>>, <<224, 72>>, <<224, 80>>,
      <<97>>, <<100>>, <<119>>, <<115>>, <<120>> }

AutoOptions ==
    { o \in Options : ~o.auto_esc /\ ~o.auto_enter /\ ~o.clean }

InitAuto == InitGenOf(FALSE, BOOLEAN, AutoOptions, {"none"})

GenNextAuto == GenStep(AutoInputs) /\ UNCHANGED l_last

\* close() on the generator, or its collection once the consumer has dropped
\* it: GeneratorExit is raised at the yield, and no handler runs
GenClose ==
    /\ pc \in {"created", "suspended"}
    /\ pc' = "closed"
    /\ UNCHANGED <<opts, decoded, reads, readlog, events, g_pre, yielded, scope,
                   clears, cleanups, listVars, decodeVars, madeVars, counterVars, hiddenVars>>

\* ElementList.__exit__: the with block is left, normally or by an exception
ExitScope ==
    /\ scope = "inside"
    /\ scope' = "left"
    /\ SetCleared(clear_all(Cleared))
    /\ UNCHANGED <<pc, opts, decoded, reads, readlog, events, g_pre, yielded,
                   listVars, decodeVars, madeVars, counterVars, hiddenVars>>

\* getch returning left, right, a, d, and x, which moves nothing
NavInputs == { <<224, 75>>, <<224, 77>>, <<97>>, <<100>>, <<120>> }

NavOptions ==
    { o \in Options : ~o.auto_up_down /\ ~o.auto_esc /\ ~o.auto_enter /\ ~o.clean }

\* key_presses called on a list built with exclusive=True from elements
\* selected or not
InitNav == InitGenOf(TRUE, {TRUE}, NavOptions, {"none"})

GenNextNav == GenStep(NavInputs) /\ UNCHANGED l_last

\* move_left() and move_right() called by the consumer between two next()
NavMoveLeft == pc = "suspended" /\ ListMoveLeft

NavMoveRight == pc = "suspended" /\ ListMoveRight

---------------------------------------------------------------------------
(* Construction and the first update.                                      *)

\* x and y are drawn from 1..MaxPos
MaxPos == 4

\* lines 245-254: super().__init__(items[0], x, y, ...) reaches
\* GUICounter.__init__ with items[0] as its x, x as its y, y as its sel_fore
\* and Back.RESET as its selected; default stays 0
GUIHiddenList__init__(items, x, y, selected, w) ==
    GUICounter__init__(StrVal(items[1]), x, TRUE, 0, 0, "left", 0,
                       <<NegInf, PosInf>>, <<NegInf, PosInf>>, TRUE)
       @@ [items |-> items, wrap |-> w]

Kinds == {"GUIElement", "GUICounter", "GUIHiddenList"}

Construct(kind, x, y, selected) ==
    CASE kind = "GUIElement" -> GUIElement__init__("t", IntVal(x), IntVal(y), selected)
      [] kind = "GUICounter" ->
            GUICounter__init__(IntVal(x), IntVal(y), selected, 0, 0, "left", 0,
                               <<NegInf, PosInf>>, <<NegInf, PosInf>>, TRUE)
      [] kind = "GUIHiddenList" ->
            GUIHiddenList__init__(<<"a", "b">>, IntVal(x), IntVal(y), selected, FALSE)

\* lines 134-145: print_pos(text, self.x, self.y, fore, back) with the
\* selected or the unselected colours
GUIElement_update(e) ==
    [done |-> TRUE, x |-> e.x, y |-> e.y,
     colours |-> IF e.selected THEN "sel" ELSE "unsel"]

IdleMade ==
    /\ made = [kind |-> "none"]
    /\ printed = [done |-> FALSE]

InitMade ==
    /\ \E kind \in Kinds, x \in 1..MaxPos, y \in 1..MaxPos, selected \in BOOLEAN :
          made = [kind |-> kind, x |-> x, y |-> y, selected |-> selected,
                  obj |-> Construct(kind, x, y, selected)]
    /\ printed = [done |-> FALSE]

\* the first update() of the constructed element
FirstUpdate ==
    /\ made.kind # "none"
    /\ ~printed.done
    /\ printed' = GUIElement_update(made.obj)
    /\ UNCHANGED <<made, decodeVars, counterVars, hiddenVars, listVars, genVars>>

---------------------------------------------------------------------------
(* The specifications.                                                     *)

Init == IdleDecode /\ IdleMade /\ IdleCounter /\ IdleHidden /\ InitGen
Next == GenNext \/ GenClose \/ ExitScope
Spec == Init /\ [][Next]_vars

InitAutoSpec == IdleDecode /\ IdleMade /\ IdleCounter /\ IdleHidden /\ InitAuto
NextAuto == GenNextAuto \/ GenClose
SpecAuto == InitAutoSpec /\ [][NextAuto]_vars

InitAuxSpec == IdleDecode /\ IdleMade /\ InitAux /\ IdleHidden /\ IdleList /\ IdleGen
NextAux == CounterIncreaseAux \/ CounterDecreaseAux
              \/ CounterAuxIncrease \/ CounterAuxDecrease
SpecAux == InitAuxSpec /\ [][NextAux]_vars

InitClearSpec == IdleDecode /\ IdleMade /\ InitClear /\ IdleHidden /\ IdleList /\ IdleGen
NextClear == CounterIncreaseShown \/ CounterDecreaseShown \/ CounterClear
SpecClear == InitClearSpec /\ [][NextClear]_vars

InitMadeSpec == IdleDecode /\ InitMade /\ IdleCounter /\ IdleHidden /\ IdleList /\ IdleGen
NextMade == FirstUpdate
SpecMade == InitMadeSpec /\ [][NextMade]_vars

InitNavSpec == IdleDecode /\ IdleMade /\ IdleCounter /\ IdleHidden /\ InitNav
NextNav == GenNextNav \/ NavMoveLeft \/ NavMoveRight
SpecNav == InitNavSpec /\ [][NextNav]_vars

InitDecode == IdleDecode /\ IdleMade /\ IdleCounter /\ IdleHidden /\ IdleList /\ IdleGen
NextDecode == Decode
SpecDecode == InitDecode /\ [][NextDecode]_vars

InitCounterSpec == IdleDecode /\ IdleMade /\ InitCounter /\ IdleHidden /\ IdleList /\ IdleGen
NextCounter == CounterIncrease \/ CounterDecrease
SpecCounter == InitCounterSpec /\ [][NextCounter]_vars

InitHiddenSpec == IdleDecode /\ IdleMade /\ IdleCounter /\ InitHidden /\ IdleList /\ IdleGen
NextHidden == HiddenIncrease \/ HiddenDecrease
SpecHidden == InitHiddenSpec /\ [][NextHidden]_vars

InitListSpec == IdleDecode /\ IdleMade /\ IdleCounter /\ IdleHidden /\ InitList /\ IdleGen
NextList == ListSelect \/ ListDeselect \/ ListMoveLeft \/ ListMoveRight
SpecList == InitListSpec /\ [][NextList]_vars

---------------------------------------------------------------------------
(* The claims.                                                             *)

C1_Fed ==
    /\ decoded = <<"up", "up", "enter">>
    /\ opts.auto_up_down /\ opts.auto_enter
    /\ Len(elems) = 2 /\ current_index = 0

\* C1, as amended: with auto_enter, once "enter" is decoded the generator has
\* returned and the consumer has received exactly the keys decoded before that
\* "enter", in order, and not the "enter" itself; on two counters with
\* auto_up_down, after up, up, enter the first (current) counter has been
\* increased exactly twice, the other not at all, and exactly up, up were yielded.
C1_EnterEndsSequence ==
    /\ (opts.auto_enter /\ decoded # <<>> /\ decoded[Len(decoded)] = "enter")
          => /\ pc = "returned"
             /\ yielded = SubSeq(decoded, 1, Len(decoded) - 1)
             /\ \A i \in DOMAIN yielded : yielded[i] # "enter"
    /\ C1_Fed => /\ yielded = <<"up", "up">>
                 /\ elems[1].count = 2
                 /\ elems[2].count = 0

C1_Witness ==
    C1_Fed /\ pc = "returned" /\ elems[1].count = 2 /\ Len(yielded) = 2

\* C1, as stated: after up, up, enter the consumer has received the three keys
\* up, up, enter and the first counter has been increased twice.
C1_Original ==
    C1_Fed => /\ yielded = <<"up", "up", "enter">>
              /\ elems[1].count = 2

\* C2, as stated: with clean, once the sequence has ended, by "enter" under
\* auto_enter or by the consumer closing the generator after some yielded key,
\* every element has been cleared and the list's cleanup() has run.
C2_CleanOnEveryEnd ==
    (opts.clean /\ (pc = "returned" \/ (pc = "closed" /\ yielded # <<>>)))
       => /\ \A i \in DOMAIN clears : clears[i] >= 1
          /\ cleanups >= 1

Group(i) == elems[i].exclusive_to
Selected == { j \in DOMAIN elems : elems[j].selected }

\* C4: when select() has returned on an element of a list built with
\* exclusive, that element is selected and no other element of the list is,
\* whatever was selected before.
C4_SelectIsExclusive ==
    (l_last.op = "select" /\ Group(l_last.arg) = DOMAIN elems)
       => /\ elems[l_last.arg].selected
          /\ \A j \in DOMAIN elems \ {l_last.arg} : ~elems[j].selected
          /\ Cardinality(Selected) <= 1

C4_Witness ==
    /\ l_last.op = "select" /\ l_last.arg = 1
    /\ Len(elems) = 3 /\ Group(1) = DOMAIN elems
    /\ ~l_last.pre.elems[1].selected
    /\ l_last.pre.elems[2].selected /\ l_last.pre.elems[3].selected
    /\ Selected = {1}

\* C5: a counter with finite bounds that was constructed with its count inside
\* them has its count inside them after any calls of increase and decrease.
C5_CountStaysInBounds ==
    (IsFinite(counter.bounds) /\ Inside(c_init, counter.bounds))
       => Inside(counter.count, counter.bounds)

C5_Witness ==
    /\ IsFinite(counter.bounds) /\ Inside(c_init, counter.bounds)
    /\ counter.bounds[1] < counter.bounds[2]
    /\ c_last.op = "increase" /\ c_last.pre.count = counter.bounds[2]
    /\ ~counter.wrap_bounds /\ counter.count = counter.bounds[2]

\* C6: increase adds 1 to a count that is not the upper bound; at the upper
\* bound it sets the count to the lower bound with wrap_bounds and leaves it
\* without. decrease subtracts 1 from a count that is not the lower bound; at
\* the lower bound it sets the count to the upper bound with wrap_bounds and
\* leaves it without.
C6_IncreaseDecrease ==
    LET was == c_last.pre.count
        lo == counter.bounds[1]
        hi == counter.bounds[2]
    IN  /\ c_last.op = "increase"
             => counter.count = IF was # hi THEN was + 1
                                ELSE IF counter.wrap_bounds THEN lo ELSE was
        /\ c_last.op = "decrease"
             => counter.count = IF was # lo THEN was - 1
                                ELSE IF counter.wrap_bounds THEN hi ELSE was

C6_Witness ==
    /\ c_last.op = "decrease" /\ c_last.pre.count = counter.bounds[1]
    /\ counter.wrap_bounds /\ counter.bounds[1] < counter.bounds[2]
    /\ counter.count = counter.bounds[2]

\* C7: once move_left or move_right has been called, _current_index is in
\* 0..len-1; move_left at 0 gives len-1 and move_right at len-1 gives 0,
\* whatever wrap is; the element at the new index is selected by the move.
C7_Navigation ==
    LET n == Len(elems)
        was == l_last.pre.current_index
    IN  /\ l_last.moved => current_index \in 0..(n - 1)
        /\ l_last.op = "move_left"
             => /\ was = 0 => current_index = n - 1
                /\ was \in 1..(n - 1) => current_index = was - 1
                /\ elems[current_index + 1].selected
        /\ l_last.op = "move_right"
             => /\ was = n - 1 => current_index = 0
                /\ was \in 0..(n - 2) => current_index = was + 1
                /\ elems[current_index + 1].selected

C7_Witness ==
    /\ l_last.op = "move_left" /\ l_last.pre.current_index = 0
    /\ ~wrap /\ Len(elems) = 3 /\ current_index = 2
    /\ ~l_last.pre.elems[3].selected /\ elems[3].selected

\* C8: with wrap, decrease at the first item makes current the last item and
\* increase at the last item makes current the first; without wrap both leave
\* count and current as they were; anywhere else increase makes current the
\* next item and decrease the previous one.
C8_CyclicMoves ==
    LET n == Len(hlist.items)
        was == h_last.pre.count % n
        held == hlist.count = h_last.pre.count /\ current(hlist) = current(h_last.pre)
    IN  /\ h_last.op = "decrease"
             => IF was = 0
                THEN IF hlist.wrap THEN current(hlist) = hlist.items[n] ELSE held
                ELSE current(hlist) = hlist.items[was]
        /\ h_last.op = "increase"
             => IF was = n - 1
                THEN IF hlist.wrap THEN current(hlist) = hlist.items[1] ELSE held
                ELSE current(hlist) = hlist.items[was + 2]

C8_Witness ==
    /\ h_last.op = "decrease" /\ h_last.pre.count = 0 /\ hlist.wrap
    /\ Len(hlist.items) = 3 /\ current(hlist) = "c"

C9_Start == hlist.items = <<"a", "b", "c">> /\ hlist.wrap

\* C9, as amended: on items a, b, c with wrap, from index 0, one decrease
\* gives current = "c", two give "b", and three consecutive ones end with
\* current = "a".
C9_ThreeDecreases ==
    C9_Start
       => /\ h_trace = <<"decrease">> => current(hlist) = "c"
          /\ h_trace = <<"decrease", "decrease">> => current(hlist) = "b"
          /\ h_trace = <<"decrease", "decrease", "decrease">>
                => current(hlist) = "a"

C9_Witness ==
    /\ C9_Start /\ h_trace = <<"decrease", "decrease", "decrease">>
    /\ hlist.count = 0 - 3 /\ current(hlist) = "a"

\* C9, as stated: on items a, b, c with wrap, from index 0, three consecutive
\* decrease calls end with current = "c".
C9_Original ==
    (C9_Start /\ h_trace = <<"decrease", "decrease", "decrease">>)
       => current(hlist) = "c"

\* C10: a decoding whose first byte is in 32..126 reads one byte and gives
\* that byte's character; one whose first byte is 0 or 224 reads exactly one
\* more byte and gives the table's entry for the two bytes; any other reads
\* one byte only; the key is the table's entry for the bytes read, whatever
\* was decoded before.
C10_Decoding ==
    d_last.reads # <<>>
       => LET b == d_last.reads[1]
          IN  /\ b \in 32..126
                   => /\ Len(d_last.reads) = 1
                      /\ d_last.ok
                      /\ d_last.key = chr(b)
              /\ b \in {0, 224}
                   => /\ Len(d_last.reads) = 2
                      /\ d_last.ok = (\E p \in keysLiteral : p[1] = d_last.reads)
                      /\ d_last.ok => <<d_last.reads, d_last.key>> \in keysLiteral
              /\ b \notin {0, 224} => Len(d_last.reads) = 1
              /\ d_last.ok => <<d_last.reads, d_last.key>> \in keys

C10_Witness ==
    d_last.reads = <<224, 72>> /\ d_last.ok /\ d_last.key = "up"

\* C11: with auto_left_right a decoded "left" or "a" has caused exactly one
\* move_left and "right" or "d" exactly one move_right; with auto_up_down "up"
\* or "w" has caused exactly one increase and "down" or "s" exactly one
\* decrease of the element that was current; the key is yielded with the
\* effect in place; without the option the key changes no element and no index.
C11_AutoKeys ==
    decoded # <<>>
       => LET k == decoded[Len(decoded)]
              cur == current_pos(g_pre)
          IN  /\ yielded = decoded
              /\ k \in {"left", "a"}
                   => TheList = IF opts.auto_left_right THEN move_left(g_pre)
                                ELSE g_pre
              /\ k \in {"right", "d"}
                   => TheList = IF opts.auto_left_right THEN move_right(g_pre)
                                ELSE g_pre
              /\ k \in {"up", "w"}
                   => TheList = IF opts.auto_up_down
                                THEN [g_pre EXCEPT !.elems[cur] = GUICounter_increase(@)]
                                ELSE g_pre
              /\ k \in {"down", "s"}
                   => TheList = IF opts.auto_up_down
                                THEN [g_pre EXCEPT !.elems[cur] = GUICounter_decrease(@)]
                                ELSE g_pre

C11_Witness ==
    /\ decoded = <<"a", "w">> /\ yielded = decoded
    /\ opts.auto_left_right /\ opts.auto_up_down
    /\ Len(elems) = 2 /\ current_index = 1 /\ g_pre.current_index = 1
    /\ elems[2].count = 1 /\ elems[1].count = 0

\* C12: every next() has read the bytes of exactly one key, one byte or, after
\* a prefix, two; while the generator is suspended as many keys have been read
\* as yielded; the i-th key yielded is the table's entry for the i-th bytes read.
C12_PullBased ==
    /\ \A i \in DOMAIN readlog :
          Len(readlog[i]) = IF readlog[i][1] \in Prefixes THEN 2 ELSE 1
    /\ readlog # <<>> => reads = readlog[Len(readlog)]
    /\ Len(yielded) <= Len(readlog)
    /\ pc = "suspended" => Len(yielded) = Len(readlog)
    /\ \A i \in DOMAIN yielded :
          HasKey(readlog[i]) /\ yielded[i] = Lookup(readlog[i])

C12_Witness ==
    /\ pc = "suspended"
    /\ readlog = << <<224, 72>>, <<100>> >>
    /\ yielded = <<"up", "d">>

FirstGetch == CHOOSE k \in DOMAIN events :
                  /\ events[k][1] = "getch"
                  /\ \A m \in 1..(k - 1) : events[m][1] # "getch"

\* C13: in the first next(), before the first getch, init() has run, then
\* select() on the element that is current, then update() on every element.
C13_StartupBeforeRead ==
    Len(readlog) = 1
       => LET cur == current_pos(g_pre)
          IN  /\ events[1] = <<"init", 0>>
              /\ \E b \in 2..(FirstGetch - 1) :
                    /\ events[b] = <<"select", cur>>
                    /\ \A j \in DOMAIN elems :
                          \E c \in (b + 1)..(FirstGetch - 1) :
                             events[c] = <<"update", j>>
              /\ g_pre.elems[cur].selected
              /\ \A m \in FirstGetch..Len(events) : events[m][1] = "getch"

C13_Witness ==
    /\ Len(readlog) = 1 /\ reads = <<224, 72>>
    /\ Len(elems) = 2 /\ g_pre.current_index = 1
    /\ events = << <<"init", 0>>, <<"select", 2>>, <<"update", 2>>,
                   <<"update", 1>>, <<"update", 2>>,
                   <<"getch", 224>>, <<"getch", 72>> >>

\* C14: when the bytes read have no entry in the table, KeyError reaches the
\* consumer, nothing is yielded for them, and the elements and the index are
\* as they were when getch was called, whatever the options.
C14_DecodeError ==
    /\ (readlog # <<>> /\ ~HasKey(readlog[Len(readlog)]))
          => /\ pc = "KeyError"
             /\ yielded = decoded
             /\ Len(decoded) = Len(readlog) - 1
             /\ TheList = g_pre
    /\ pc = "KeyError" => ~HasKey(reads)

C14_Witness ==
    /\ pc = "KeyError" /\ reads = <<224, 13>>
    /\ opts.auto_enter /\ opts.auto_up_down /\ opts.auto_left_right
    /\ yielded = <<"up">> /\ TheList = g_pre

\* C15: a counter with finite bounds has its count inside them after
\* construction with any default and bounds and after any calls of increase,
\* decrease, aux_increase and aux_decrease.
C15_CountAlwaysInBounds ==
    IsFinite(counter.bounds) => Inside(counter.count, counter.bounds)

\* C16: a counter with finite aux_bounds that was constructed with its
\* aux_count inside them has its aux_count inside them after any calls of
\* aux_increase and aux_decrease.
C16_AuxCountStaysInBounds ==
    (IsFinite(counter.aux_bounds) /\ Inside(a_init, counter.aux_bounds))
       => Inside(counter.aux_count, counter.aux_bounds)

\* C17: aux_increase adds 1 to aux_count and leaves count when count is not
\* the upper aux bound; when it is, it sets count to the lower aux bound and
\* leaves aux_count with wrap_bounds, and changes neither without.
\* aux_decrease mirrors it with the lower aux bound as gate and the upper
\* one as the new count.
C17_AuxGatesOnCount ==
    LET was == c_last.pre
        lo == counter.aux_bounds[1]
        hi == counter.aux_bounds[2]
    IN  /\ c_last.op = "aux_increase"
             => IF was.count # hi
                THEN counter = [was EXCEPT !.aux_count = @ + 1]
                ELSE IF counter.wrap_bounds
                     THEN counter = [was EXCEPT !.count = lo]
                     ELSE counter = was
        /\ c_last.op = "aux_decrease"
             => IF was.count # lo
                THEN counter = [was EXCEPT !.aux_count = @ - 1]
                ELSE IF counter.wrap_bounds
                     THEN counter = [was EXCEPT !.count = hi]
                     ELSE counter = was

C17_Witness ==
    /\ c_last.op = "aux_increase"
    /\ IsFinite(counter.aux_bounds) /\ counter.aux_bounds[1] < counter.aux_bounds[2]
    /\ c_last.pre.count = counter.aux_bounds[2] /\ counter.wrap_bounds
    /\ c_last.pre.aux_count = counter.aux_bounds[2]
    /\ counter.count = counter.aux_bounds[1]
    /\ counter.aux_count = c_last.pre.aux_count

\* C18: clear(width) called after increase and decrease calls blanks as many
\* columns as the largest of width, the length of the text on the screen and
\* padding, so never fewer columns than that text has.
C18_ClearCoversShownText ==
    c_last.op = "clear"
       => /\ c_last.blanked = MaxOf({c_last.width, c_last.shown, counter.padding})
          /\ c_last.blanked >= c_last.shown

SameValue(a, b) == a.t = b.t /\ a.v = b.v

\* C19: an element of each kind constructed with x, y and selected has that
\* x, that y and that selected, and its first update() prints at (x, y) with
\* the colours selected chooses.
C19_ConstructedAsAsked ==
    made.kind # "none"
       => /\ SameValue(made.obj.x, IntVal(made.x))
          /\ SameValue(made.obj.y, IntVal(made.y))
          /\ made.obj.selected = made.selected
          /\ printed.done
               => /\ SameValue(printed.x, IntVal(made.x))
                  /\ SameValue(printed.y, IntVal(made.y))
                  /\ printed.colours = IF made.selected THEN "sel" ELSE "unsel"

\* C20: once the first next() of key_presses has run on a list built with
\* exclusive, and after every move_left and move_right that follows, called
\* by the consumer or under auto_left_right, the element at _current_index is
\* selected and no other element is, whatever was selected at construction.
C20_OnlyCurrentSelected ==
    (pc # "created" /\ \A i \in DOMAIN elems : Group(i) = DOMAIN elems)
       => Selected = {current_pos(TheList)}

C20_Witness ==
    /\ pc = "suspended" /\ decoded = <<"x", "a">> /\ opts.auto_left_right
    /\ Len(elems) = 2
    /\ l_last.op = "init" /\ \A j \in DOMAIN elems : l_last.pre.elems[j].selected
    /\ g_pre.current_index # current_index
    /\ Selected = {current_pos(TheList)}

====
